---- MODULE Spec2Model ----
\* Hierarchical entity stores of HierarchicalStack: SystemModel (system_model.py)
\* and TechnologyModel (technology_model.py).
\*
\* A Python str of digits is a sequence of digits: "010001" is <<0,1,0,0,0,1>>.
\* A Python dict is the sequence of its values in insertion order (the order
\* dict.values() iterates in); an entity's key is its full_code.
EXTENDS Integers, Sequences, FiniteSets, TLC

VARIABLES
    sys_items,    \* SystemModel.items
    sys_file,     \* the file at SystemModel.db_path
    tech_items,   \* TechnologyModel.items
    tech_file,    \* the file at TechnologyModel.db_path
    next_uuid,    \* the next value uuid.uuid4() yields (fresh on every call)
    ret,          \* the last call: operation, store, argument, outcome, returned entity's key
    history,      \* the parent_code argument of every create_item call that returned
    connections,  \* ConnectionManager.connections
    conn_file     \* the file at ConnectionManager.save_path

vars == <<sys_items, sys_file, tech_items, tech_file, next_uuid, ret, history,
          connections, conn_file>>

\* ---------------------------------------------------------------- bounds
MaxCreates == 7      \* create_item calls that return, per behaviour
MaxDepth == 101      \* create_item calls of the deep-chain specification
MaxItems == 2        \* create_item calls of the specifications that mix operations
MaxConns == 2        \* connections in the registry
MaxUuid == 6         \* uuids drawn before the registry stops being reopened

\* ------------------------------------------------------- program constants
HierarchyDigits == 2   \* {level:02d}
SiblingDigits == 4     \* {index:04d}
CodeWidth == 6         \* parent_code[-6:], len(parent_code) >= 6

\* ------------------------------------------------------------ str helpers
None == << -1 >>                         \* Python None (no digit string equals it)
Sentinel == <<0, 0, 0, 0, 0, 0>>         \* "000000"
Truthy(s) == s # None /\ s # << >>       \* `if parent_code`: None and "" are falsy

Min(S) == CHOOSE x \in S : \A y \in S : x <= y

RECURSIVE Digits(_)
Digits(n) == IF n < 10 THEN <<n>> ELSE Digits(n \div 10) \o <<n % 10>>

\* format(n, "0{w}d"): decimal, zero-padded on the left to at least w characters
ZeroPad(n, w) ==
    LET d == Digits(n)
    IN  IF Len(d) >= w THEN d ELSE [i \in 1..(w - Len(d)) |-> 0] \o d

\* s[-6:]
Last6(s) == IF Len(s) <= CodeWidth THEN s ELSE SubSeq(s, Len(s) - CodeWidth + 1, Len(s))

\* int(code[:2])
CodeLevel(code) ==
    IF Len(code) >= 2 THEN 10 * code[1] + code[2] ELSE code[1]

\* ------------------------------------------------------------- SystemItem
generate_code_unpadded(level, index) == ZeroPad(level, HierarchyDigits) \o Digits(index)

\* the two fields in the other order
generate_code_swapped(level, index) ==
    ZeroPad(index, SiblingDigits) \o ZeroPad(level, HierarchyDigits)

generate_code(level, index) == ZeroPad(level, HierarchyDigits) \o ZeroPad(index, SiblingDigits)

ItemParentCode(parent_code) ==
    IF Truthy(parent_code) /\ Len(parent_code) >= CodeWidth
    THEN Last6(parent_code) ELSE Sentinel

SystemItem(uuid, name, description, parent_code, level, child_index) ==
    LET idx  == IF child_index = 0 THEN 1 ELSE child_index
        code == generate_code(level, idx)
        pc   == ItemParentCode(parent_code)
    IN  [uuid |-> uuid, name |-> name, description |-> description,
         level |-> level, child_index |-> idx, code |-> code,
         parent_code |-> pc, full_code |-> pc \o code,
         attributes |-> << >>, children_codes |-> << >>,
         technology_refs |-> << >>]

SystemItem_to_dict(i) ==
    [uuid |-> i.uuid, name |-> i.name, description |-> i.description,
     level |-> i.level, child_index |-> i.child_index, code |-> i.code,
     parent_code |-> i.parent_code, full_code |-> i.full_code,
     attributes |-> i.attributes, children_codes |-> i.children_codes,
     technology_refs |-> i.technology_refs]

\* ------------------------------------------------------------ SystemModel
\* self.items[item.full_code] = item: a new key goes last, an existing key
\* keeps its position and gets the new value
DictSet(items, item) ==
    IF \E i \in 1..Len(items) : items[i].full_code = item.full_code
    THEN [i \in 1..Len(items) |->
            IF items[i].full_code = item.full_code THEN item ELSE items[i]]
    ELSE Append(items, item)

Keys(items) == {items[i].full_code : i \in 1..Len(items)}

Parent6(parent_code) ==
    IF Truthy(parent_code) /\ Len(parent_code) >= CodeWidth
    THEN Last6(parent_code) ELSE Sentinel

\* the positions of the entities the parent lookup loop accepts
ParentMatches(items, parent6) ==
    {i \in 1..Len(items) : Last6(items[i].full_code) = parent6}

ChildLevel_same(parent) == CodeLevel(parent.code)

ChildLevel(parent) == CodeLevel(parent.code) + 1

SiblingIndex(items, parent6, level) ==
    Cardinality({i \in 1..Len(items) :
        items[i].parent_code = parent6 /\ CodeLevel(items[i].code) = level}) + 1

SystemModel_save(items) ==
    [exists |-> TRUE, data |-> [i \in 1..Len(items) |-> SystemItem_to_dict(items[i])]]

\* lines 99-102: every entity whose code is parent6 gets the new key appended
RegisterChild(items, parent6, full_code) ==
    [i \in 1..Len(items) |->
        IF items[i].code = parent6 /\ parent6 # Sentinel
        THEN [items[i] EXCEPT !.children_codes = Append(@, full_code)]
        ELSE items[i]]

SystemModel_insert(name, description, parent_code, parent6, level, index) ==
    LET item   == SystemItem(next_uuid, name, description, parent6, level, index)
        stored == RegisterChild(DictSet(sys_items, item), parent6, item.full_code)
    IN  /\ sys_items' = stored
        /\ sys_file' = SystemModel_save(stored)
        /\ next_uuid' = next_uuid + 1
        /\ ret' = [op |-> "create_item", store |-> "system", arg |-> parent_code,
                   status |-> "ok", code |-> item.full_code]
        /\ history' = Append(history, parent_code)

SystemModel_create_item(name, description, parent_code) ==
    LET parent6 == Parent6(parent_code)
    IN  /\ IF parent6 # Sentinel
           THEN LET found == ParentMatches(sys_items, parent6)
                IN  IF found = {}
                    THEN /\ ret' = [op |-> "create_item", store |-> "system",
                                    arg |-> parent_code, status |-> "ValueError",
                                    code |-> << >>]
                         /\ UNCHANGED <<sys_items, sys_file, next_uuid, history>>
                    ELSE LET parent == sys_items[Min(found)]
                             level  == ChildLevel(parent)
                             index  == SiblingIndex(sys_items, parent6, level)
                         IN  SystemModel_insert(name, description, parent_code,
                                                parent6, level, index)
           ELSE SystemModel_insert(name, description, parent_code, Sentinel, 0, 1)
        /\ UNCHANGED <<tech_items, tech_file, connections, conn_file>>

\* ---------------------------------------------------------- TechnologyItem
TechnologyItem(uuid, name, description, parent_code, level, child_index) ==
    LET idx  == IF child_index = 0 THEN 1 ELSE child_index
        code == generate_code(level, idx)
        pc   == ItemParentCode(parent_code)
    IN  [uuid |-> uuid, name |-> name, description |-> description,
         level |-> level, child_index |-> idx, code |-> code,
         parent_code |-> pc, full_code |-> pc \o code,
         attributes |-> << >>, children_codes |-> << >>]

TechnologyItem_to_dict(i) ==
    [uuid |-> i.uuid, name |-> i.name, description |-> i.description,
     level |-> i.level, child_index |-> i.child_index, code |-> i.code,
     parent_code |-> i.parent_code, full_code |-> i.full_code,
     attributes |-> i.attributes, children_codes |-> i.children_codes]

\* -------------------------------------------------------- TechnologyModel
TechnologyModel_save(items) ==
    [exists |-> TRUE, data |-> [i \in 1..Len(items) |-> TechnologyItem_to_dict(items[i])]]

\* lines 96-98: next(...) takes the first entity whose code is parent6
TechRegisterChild(items, parent6, full_code) ==
    LET cands == {i \in 1..Len(items) : items[i].code = parent6}
    IN  IF cands # {} /\ parent6 # Sentinel
        THEN [items EXCEPT ![Min(cands)].children_codes = Append(@, full_code)]
        ELSE items

TechnologyModel_insert(name, description, parent_code, parent6, level, index) ==
    LET item   == TechnologyItem(next_uuid, name, description, parent6, level, index)
        stored == TechRegisterChild(DictSet(tech_items, item), parent6, item.full_code)
    IN  /\ tech_items' = stored
        /\ tech_file' = TechnologyModel_save(stored)
        /\ next_uuid' = next_uuid + 1
        /\ ret' = [op |-> "create_item", store |-> "technology", arg |-> parent_code,
                   status |-> "ok", code |-> item.full_code]
        /\ history' = Append(history, parent_code)

TechnologyModel_create_item(name, description, parent_code) ==
    LET parent6 == Parent6(parent_code)
    IN  /\ IF parent6 # Sentinel
           THEN LET found == ParentMatches(tech_items, parent6)
                IN  IF found = {}
                    THEN /\ ret' = [op |-> "create_item", store |-> "technology",
                                    arg |-> parent_code, status |-> "ValueError",
                                    code |-> << >>]
                         /\ UNCHANGED <<tech_items, tech_file, next_uuid, history>>
                    ELSE LET parent == tech_items[Min(found)]
                             level  == ChildLevel(parent)
                             index  == SiblingIndex(tech_items, parent6, level)
                         IN  TechnologyModel_insert(name, description, parent_code,
                                                    parent6, level, index)
           ELSE TechnologyModel_insert(name, description, parent_code, Sentinel, 0, 1)
        /\ UNCHANGED <<sys_items, sys_file, connections, conn_file>>


\* ------------------------------------- SystemModel: attributes, technologies
AttributeTypes == {"mechanical", "fluid", "energy", "state"}

\* str.lower() on the attribute types the callers pass
Lower(s) ==
    CASE s = "Mechanical" -> "mechanical"
      [] s = "State" -> "state"
      [] OTHER -> s

\* d[k] = v on a dict whose order is never read
DictPut(d, k, v) == [x \in (DOMAIN d) \cup {k} |-> IF x = k THEN v ELSE d[x]]

\* SystemItem.add_attribute: whether it raises ValueError
SystemItem_add_attribute_raises(attr_type) == Lower(attr_type) \notin AttributeTypes

SystemItem_add_attribute_unchecked(item, attr_type, description) ==
    [item EXCEPT !.attributes = DictPut(@, attr_type, description)]

SystemItem_add_attribute(item, attr_type, description) ==
    [item EXCEPT !.attributes = DictPut(@, Lower(attr_type), description)]

\* self.items.get(code): the position of the entity, 0 for None
SystemModel_get_item(items, code) ==
    IF code \in Keys(items)
    THEN CHOOSE i \in 1..Len(items) : items[i].full_code = code
    ELSE 0

SystemModel_add_attribute_strict(item_code, attr_type, description) ==
    LET pos == SystemModel_get_item(sys_items, item_code)
    IN  /\ IF pos # 0 /\ ~SystemItem_add_attribute_raises(attr_type)
           THEN LET stored == [sys_items EXCEPT
                        ![pos] = SystemItem_add_attribute(@, attr_type, description)]
                IN  /\ sys_items' = stored
                    /\ sys_file' = SystemModel_save(stored)
           ELSE UNCHANGED <<sys_items, sys_file>>
        /\ ret' = [op |-> "add_attribute", store |-> "system", arg |-> item_code,
                   attr_type |-> attr_type, description |-> description,
                   status |-> IF pos = 0 THEN "KeyError"
                              ELSE IF SystemItem_add_attribute_raises(attr_type)
                                   THEN "ValueError" ELSE "ok",
                   code |-> << >>]
        /\ UNCHANGED <<tech_items, tech_file, next_uuid, history, connections, conn_file>>

SystemModel_add_attribute_lax(item_code, attr_type, description) ==
    LET pos == SystemModel_get_item(sys_items, item_code)
    IN  /\ IF pos # 0
           THEN LET stored == [sys_items EXCEPT
                        ![pos] = SystemItem_add_attribute_unchecked(@, attr_type, description)]
                IN  /\ sys_items' = stored
                    /\ sys_file' = SystemModel_save(stored)
           ELSE UNCHANGED <<sys_items, sys_file>>
        /\ ret' = [op |-> "add_attribute", store |-> "system", arg |-> item_code,
                   attr_type |-> attr_type, description |-> description,
                   status |-> "ok", code |-> << >>]
        /\ UNCHANGED <<tech_items, tech_file, next_uuid, history, connections, conn_file>>

SystemModel_add_attribute(item_code, attr_type, description) ==
    LET pos    == SystemModel_get_item(sys_items, item_code)
        raises == pos # 0 /\ SystemItem_add_attribute_raises(attr_type)
    IN  /\ IF pos # 0 /\ ~raises
           THEN LET stored == [sys_items EXCEPT
                        ![pos] = SystemItem_add_attribute(@, attr_type, description)]
                IN  /\ sys_items' = stored
                    /\ sys_file' = SystemModel_save(stored)
           ELSE UNCHANGED <<sys_items, sys_file>>
        /\ ret' = [op |-> "add_attribute", store |-> "system", arg |-> item_code,
                   attr_type |-> attr_type, description |-> description,
                   status |-> IF raises THEN "ValueError" ELSE "ok",
                   code |-> << >>]
        /\ UNCHANGED <<tech_items, tech_file, next_uuid, history, connections, conn_file>>

InSeq(x, seq) == \E i \in 1..Len(seq) : seq[i] = x

\* the store after assign_technology(item_code, tech_code)
AssignedAlways(items, item_code, tech_code) ==
    LET pos == SystemModel_get_item(items, item_code)
    IN  IF pos # 0
        THEN [items EXCEPT ![pos].technology_refs = Append(@, tech_code)]
        ELSE items

Assigned(items, item_code, tech_code) ==
    LET pos == SystemModel_get_item(items, item_code)
    IN  IF pos # 0 /\ ~InSeq(tech_code, items[pos].technology_refs)
        THEN [items EXCEPT ![pos].technology_refs = Append(@, tech_code)]
        ELSE items

SystemModel_assign_technology(item_code, tech_code) ==
    LET stored == Assigned(sys_items, item_code, tech_code)
    IN  /\ sys_items' = stored
        /\ sys_file' = IF stored # sys_items THEN SystemModel_save(stored) ELSE sys_file
        /\ ret' = [op |-> "assign_technology", store |-> "system", arg |-> item_code,
                   tech_code |-> tech_code, status |-> "ok", code |-> << >>]
        /\ UNCHANGED <<tech_items, tech_file, next_uuid, history, connections, conn_file>>

\* get_item as a call of its own: ret.code is the key of the entity, None if absent
SystemModel_get_item_call(code) ==
    /\ ret' = [op |-> "get_item", store |-> "system", arg |-> code, status |-> "ok",
               code |-> IF SystemModel_get_item(sys_items, code) # 0 THEN code ELSE None]
    /\ UNCHANGED <<sys_items, sys_file, tech_items, tech_file, next_uuid, history,
                   connections, conn_file>>

\* ------------------------------------------------- SystemModel: save / load
\* from_dict: the constructor runs on name, description, parent_code, level and
\* child_index (drawing the uuid `fresh`), then uuid, code, full_code,
\* attributes, children_codes and technology_refs are taken from the record
SystemItem_from_dict_new_uuid(data, fresh) ==
    [SystemItem(fresh, data.name, data.description, data.parent_code,
                data.level, data.child_index)
       EXCEPT !.code = data.code, !.full_code = data.full_code,
              !.attributes = data.attributes,
              !.children_codes = data.children_codes,
              !.technology_refs = data.technology_refs]

SystemItem_from_dict(data, fresh) ==
    [SystemItem(fresh, data.name, data.description, data.parent_code,
                data.level, data.child_index)
       EXCEPT !.uuid = data.uuid, !.code = data.code, !.full_code = data.full_code,
              !.attributes = data.attributes,
              !.children_codes = data.children_codes,
              !.technology_refs = data.technology_refs]

\* load into a fresh SystemModel (items = {}): the records in file order, each
\* stored under its full_code
RECURSIVE LoadRecords(_, _, _)
LoadRecords(items, data, fresh) ==
    IF data = << >> THEN items
    ELSE LoadRecords(DictSet(items, SystemItem_from_dict(Head(data), fresh)),
                     Tail(data), fresh + 1)

SystemModel_load(file, fresh) ==
    IF file.exists THEN LoadRecords(<< >>, file.data, fresh) ELSE << >>

\* the project is opened again: SystemModel(db_path) on the file as it is. The
\* uuids the constructor draws are overwritten, so next_uuid stays.
SystemModel_reopen ==
    /\ sys_items' = SystemModel_load(sys_file, next_uuid)
    /\ ret' = [op |-> "load", store |-> "system", arg |-> None, status |-> "ok",
               code |-> << >>]
    /\ UNCHANGED <<sys_file, tech_items, tech_file, next_uuid, history,
                   connections, conn_file>>


\* -------------------------------------------- Connection, ConnectionManager
\* connections_gui_new.py (imported as connections_gui by manager_gui.py and
\* digital_twin_visualizer.py); interconnect_gui_1.py differs in load only
CONNECTION_TYPES ==
    << <<"Mechanical", "MECH">>, <<"Electrical", "ELEC">>, <<"Magnetic", "MAGN">>,
       <<"Data", "DATA">>, <<"Logical", "LOGI">>, <<"Hydraulic", "HYDR">>,
       <<"Pneumatic", "PNUM">>, <<"Spring", "SPRG">>, <<"Ground", "GRND">>,
       <<"RF", "RF___">>, <<"Flexible", "FLEX">>, <<"String", "STRN">>,
       <<"Cable", "CABL">>, <<"Custom...", "CUST">> >>

Connection(uuid, source_code, conn_type_id, conn_type_label, target_code, description) ==
    [uuid |-> uuid, source |-> source_code, type_id |-> conn_type_id,
     type_label |-> conn_type_label, target |-> target_code,
     description |-> description]

Connection_to_dict(c) ==
    [uuid |-> c.uuid, source |-> c.source, type_id |-> c.type_id,
     type_label |-> c.type_label, target |-> c.target, description |-> c.description]

ConnectionManager_save(conns) ==
    [exists |-> TRUE, data |-> [i \in 1..Len(conns) |-> Connection_to_dict(conns[i])]]

\* interconnect_gui_1.py: every entry becomes a Connection and gets the uuid
\* of its record
ConnectionManager1_load(file, fresh) ==
    IF file.exists
    THEN [i \in 1..Len(file.data) |->
            [Connection(fresh + i - 1, file.data[i].source, file.data[i].type_id,
                        file.data[i].type_label, file.data[i].target,
                        file.data[i].description)
               EXCEPT !.uuid = file.data[i].uuid]]
    ELSE << >>

\* connections_gui_new.py: every entry becomes a Connection, whose constructor
\* draws a uuid; the record's uuid is not read
ConnectionManager_load(file, fresh) ==
    IF file.exists
    THEN [i \in 1..Len(file.data) |->
            Connection(fresh + i - 1, file.data[i].source, file.data[i].type_id,
                       file.data[i].type_label, file.data[i].target,
                       file.data[i].description)]
    ELSE << >>

\* the caller builds a Connection and hands it to add_connection
ConnectionManager_add_connection(source, type_id, type_label, target, description) ==
    LET conn   == Connection(next_uuid, source, type_id, type_label, target, description)
        stored == Append(connections, conn)
    IN  /\ connections' = stored
        /\ conn_file' = ConnectionManager_save(stored)
        /\ next_uuid' = next_uuid + 1

\* dict(CONNECTION_TYPES).get(type_label, "CUST")
TypeIdOf(type_label) ==
    IF \E i \in 1..Len(CONNECTION_TYPES) : CONNECTION_TYPES[i][1] = type_label
    THEN CONNECTION_TYPES[CHOOSE i \in 1..Len(CONNECTION_TYPES) :
                              CONNECTION_TYPES[i][1] = type_label][2]
    ELSE "CUST"

\* the text of a combobox: << >> when empty, else <<name, code>> for
\* "name | code"; text.split("|")[-1].strip() is the code
NoText == << >>
TextCode(text) == text[2]

\* ManagerGUI.create_connection (ConnectionGUI.create does the same checks)
ManagerGUI_create_connection(src_text, tgt_text, type_label, custom_label, desc) ==
    LET rejected == \/ src_text = NoText
                    \/ tgt_text = NoText
                    \/ src_text = tgt_text
                    \/ (type_label = "Custom..." /\ custom_label = "")
        source == IF src_text = NoText THEN << >> ELSE TextCode(src_text)
        target == IF tgt_text = NoText THEN << >> ELSE TextCode(tgt_text)
        label  == IF type_label = "Custom..." THEN custom_label ELSE type_label
    IN  /\ IF rejected
           THEN UNCHANGED <<connections, conn_file, next_uuid>>
           ELSE ConnectionManager_add_connection(source, TypeIdOf(type_label), label,
                                                 target, desc)
        /\ ret' = [op |-> "create_connection", store |-> "connections",
                   src_text |-> src_text, tgt_text |-> tgt_text,
                   source |-> source, target |-> target,
                   type_id |-> TypeIdOf(type_label), type_label |-> label,
                   status |-> IF rejected THEN "rejected" ELSE "ok"]
        /\ UNCHANGED <<sys_items, sys_file, tech_items, tech_file, history>>

\* add_connection called with a Connection built by any caller
ConnectionManager_add_connection_call(source, type_id, type_label, target, description) ==
    /\ ConnectionManager_add_connection(source, type_id, type_label, target, description)
    /\ ret' = [op |-> "add_connection", store |-> "connections",
               source |-> source, target |-> target,
               type_id |-> type_id, type_label |-> type_label, status |-> "ok"]
    /\ UNCHANGED <<sys_items, sys_file, tech_items, tech_file, history>>

\* the project is opened again with connections_gui_new.ConnectionManager
ConnectionManager_reopen ==
    /\ connections' = ConnectionManager_load(conn_file, next_uuid)
    /\ next_uuid' = next_uuid + Len(connections')
    /\ ret' = [op |-> "load", store |-> "connections", arg |-> None, status |-> "ok",
               code |-> << >>]
    /\ UNCHANGED <<conn_file, sys_items, sys_file, tech_items, tech_file, history>>

\* the project is opened again with interconnect_gui_1.ConnectionManager; the
\* uuids its constructor draws are overwritten, so next_uuid stays
ConnectionManager1_reopen ==
    /\ connections' = ConnectionManager1_load(conn_file, next_uuid)
    /\ ret' = [op |-> "load1", store |-> "connections", arg |-> None, status |-> "ok",
               code |-> << >>]
    /\ UNCHANGED <<conn_file, next_uuid, sys_items, sys_file, tech_items, tech_file,
                   history>>

\* ------------------------------------------- TechnologyModel.load, deletion
TechnologyItem_from_dict(data, fresh) ==
    [TechnologyItem(fresh, data.name, data.description, data.parent_code,
                    data.level, data.child_index)
       EXCEPT !.uuid = data.uuid, !.code = data.code, !.full_code = data.full_code,
              !.attributes = data.attributes,
              !.children_codes = data.children_codes]

RECURSIVE TechLoadRecords(_, _, _)
TechLoadRecords(items, data, fresh) ==
    IF data = << >> THEN items
    ELSE TechLoadRecords(DictSet(items, TechnologyItem_from_dict(Head(data), fresh)),
                         Tail(data), fresh + 1)

TechnologyModel_load(file, fresh) ==
    IF file.exists THEN TechLoadRecords(<< >>, file.data, fresh) ELSE << >>

\* a deletion that also takes the code out of every children_codes list
DictPop_unlink(items, code) ==
    LET kept == SelectSeq(items, LAMBDA i : i.full_code # code)
    IN  [j \in 1..Len(kept) |->
            [kept[j] EXCEPT !.children_codes =
                SelectSeq(kept[j].children_codes, LAMBDA c : c # code)]]

\* items.pop(code, None)
DictPop(items, code) == SelectSeq(items, LAMBDA i : i.full_code # code)

\* refresh_trees / insert_node: the roots and, below each shown entity, the
\* children_codes that get_item finds
RECURSIVE Shown(_, _, _)
Shown(items, S, n) ==
    IF n = 0 THEN S
    ELSE Shown(items,
               S \cup {c \in Keys(items) :
                         \E i \in 1..Len(items) :
                            items[i].full_code \in S /\ InSeq(c, items[i].children_codes)},
               n - 1)

Displayed(items) ==
    Shown(items, {items[i].full_code : i \in {j \in 1..Len(items) :
                                                items[j].parent_code = Sentinel}},
          Len(items))

\* Python's < on digit strings
RECURSIVE StrLess(_, _)
StrLess(a, b) ==
    IF b = << >> THEN FALSE
    ELSE IF a = << >> THEN TRUE
    ELSE IF Head(a) # Head(b) THEN Head(a) < Head(b)
    ELSE StrLess(Tail(a), Tail(b))

\* sorted(roots, key=lambda x: x.code): a stable insertion sort
RECURSIVE SortedByCode(_)
SortedByCode(seq) ==
    IF seq = << >> THEN << >>
    ELSE LET x    == seq[Len(seq)]
             rest == SortedByCode(SubSeq(seq, 1, Len(seq) - 1))
             k    == Cardinality({i \in 1..Len(rest) : ~StrLess(x.code, rest[i].code)})
         IN  SubSeq(rest, 1, k) \o <<x>> \o SubSeq(rest, k + 1, Len(rest))

\* refresh_trees: the top-level nodes
RootList(items) ==
    SortedByCode(SelectSeq(items, LAMBDA i : i.parent_code = Sentinel))

\* insert_node: the nodes put under the node of `item`, in the order of the
\* loop over children_codes, the codes get_item does not find left out
ChildList(items, item) ==
    LET found == SelectSeq(item.children_codes, LAMBDA c : c \in Keys(items))
    IN  [j \in 1..Len(found) |-> items[SystemModel_get_item(items, found[j])]]

\* the nodes of the tree in the order they are inserted; the recursion is cut
\* after `fuel` levels of descent
RECURSIVE Flatten(_)
Flatten(seqs) == IF seqs = << >> THEN << >> ELSE Head(seqs) \o Flatten(Tail(seqs))

RECURSIVE NodesUnder(_, _, _)
NodesUnder(items, item, fuel) ==
    IF fuel = 0 THEN <<item.full_code>>
    ELSE LET kids == ChildList(items, item)
         IN  <<item.full_code>>
             \o Flatten([j \in 1..Len(kids) |-> NodesUnder(items, kids[j], fuel - 1)])

TreeNodes(items) ==
    LET roots == RootList(items)
    IN  Flatten([j \in 1..Len(roots) |-> NodesUnder(items, roots[j], Len(items))])

\* EditableManagerGUI.delete_system_item on the selected tree node
EditableManagerGUI_delete_system_item_unsaved(code) ==
    /\ sys_items' = DictPop(sys_items, code)
    /\ ret' = [op |-> "delete", store |-> "system", code |-> code, status |-> "ok"]
    /\ UNCHANGED <<sys_file, tech_items, tech_file, next_uuid, history, connections,
                   conn_file>>

EditableManagerGUI_delete_system_item(code) ==
    /\ sys_items' = DictPop(sys_items, code)
    /\ sys_file' = SystemModel_save(sys_items')
    /\ ret' = [op |-> "delete", store |-> "system", code |-> code, status |-> "ok"]
    /\ UNCHANGED <<tech_items, tech_file, next_uuid, history, connections, conn_file>>

\* EditableManagerGUI.delete_tech_item on the selected tree node
EditableManagerGUI_delete_tech_item(code) ==
    /\ tech_items' = DictPop(tech_items, code)
    /\ tech_file' = TechnologyModel_save(tech_items')
    /\ ret' = [op |-> "delete", store |-> "technology", code |-> code, status |-> "ok"]
    /\ UNCHANGED <<sys_items, sys_file, next_uuid, history, connections, conn_file>>

\* ----------------------------------------------------- DigitalTwinVisualizer
\* a cell text is a sequence of parts: <<name, full_code>> is "name | full_code",
\* a bare code is its digits
update_tech_table(system_items, technology_items, code) ==
    LET p == SystemModel_get_item(system_items, code)
    IN  IF p = 0 THEN << >>
        ELSE [j \in 1..Len(system_items[p].technology_refs) |->
                LET t_code == system_items[p].technology_refs[j]
                    t      == SystemModel_get_item(technology_items, t_code)
                IN  <<IF t # 0 THEN technology_items[t].name ELSE "[MISSING]", t_code>>]

update_conn_table(system_items, conns, code) ==
    LET from == SelectSeq(conns, LAMBDA c : c.source = code)
    IN  [j \in 1..Len(from) |->
            LET tgt == SystemModel_get_item(system_items, from[j].target)
            IN  <<IF tgt # 0
                  THEN <<system_items[tgt].name, system_items[tgt].full_code>>
                  ELSE from[j].target,
                  from[j].type_label, from[j].description>>]

\* load_project reads the three files of the folder; on_tree_select fills both
\* tables for the selected node
DigitalTwinVisualizer_on_tree_select(code) ==
    LET system_model == SystemModel_load(sys_file, next_uuid)
        tech_model   == TechnologyModel_load(tech_file, next_uuid)
        conn_manager == ConnectionManager_load(conn_file, next_uuid)
    IN  /\ code \in Displayed(system_model)
        /\ ret' = [op |-> "select", store |-> "visualizer", code |-> code,
                   tech_table |-> update_tech_table(system_model, tech_model, code),
                   conn_table |-> update_conn_table(system_model, conn_manager, code),
                   status |-> "ok"]
        /\ UNCHANGED <<sys_items, sys_file, tech_items, tech_file, next_uuid, history,
                       connections, conn_file>>

\* ------------------------------------- ConnectionElement (interconnection.py)
\* str(level).zfill(hierarchy_digits) + str(sibling).zfill(sibling_digits)
ZFill(d, w) == IF Len(d) >= w THEN d ELSE [i \in 1..(w - Len(d)) |-> 0] \o d

ConnectionElement_generate_code(level, sibling, hierarchy_digits, sibling_digits) ==
    ZFill(Digits(level), hierarchy_digits) \o ZFill(Digits(sibling), sibling_digits)

\* ------------------------------------- ConnectSysTechGUI (unassignment)
\* list.remove(x): the first occurrence goes
ListRemove(seq, x) ==
    LET k == Min({i \in 1..Len(seq) : seq[i] = x})
    IN  SubSeq(seq, 1, k - 1) \o SubSeq(seq, k + 1, Len(seq))

\* unassign_technology on the selected system node and list line
ConnectSysTechGUI_unassign_technology(item_code, tech_code) ==
    LET p == SystemModel_get_item(sys_items, item_code)
    IN  /\ IF p # 0 /\ InSeq(tech_code, sys_items[p].technology_refs)
           THEN /\ sys_items' = [sys_items EXCEPT ![p].technology_refs =
                                     ListRemove(sys_items[p].technology_refs, tech_code)]
                /\ sys_file' = SystemModel_save(sys_items')
           ELSE UNCHANGED <<sys_items, sys_file>>
        /\ ret' = [op |-> "unassign_technology", store |-> "system", arg |-> item_code,
                   tech_code |-> tech_code, status |-> "ok", code |-> << >>]
        /\ UNCHANGED <<tech_items, tech_file, next_uuid, history, connections, conn_file>>

\* ------------------------------------------------- system_model_bk1.py
\* SystemItem.__init__: parent_code is kept as given, whatever its length
SystemItemBk1(uuid, name, description, parent_code, level, child_index) ==
    LET idx  == IF child_index = 0 THEN 1 ELSE child_index
        code == generate_code(level, idx)
        pc   == IF Truthy(parent_code) THEN parent_code ELSE Sentinel
    IN  [uuid |-> uuid, name |-> name, description |-> description,
         level |-> level, child_index |-> idx, code |-> code,
         parent_code |-> pc, full_code |-> pc \o code,
         attributes |-> << >>, children_codes |-> << >>,
         technology_refs |-> << >>]

\* items[item.full_code] = item; the child is registered under the key
\* parent_code; save
SystemModelBk1_insert(name, description, arg, parent_code, level, index) ==
    LET item   == SystemItemBk1(next_uuid, name, description, parent_code, level, index)
        stored == DictSet(sys_items, item)
        p      == SystemModel_get_item(stored, parent_code)
        after  == IF p # 0
                  THEN [stored EXCEPT ![p].children_codes =
                            Append(stored[p].children_codes, item.full_code)]
                  ELSE stored
    IN  /\ sys_items' = after
        /\ sys_file' = SystemModel_save(after)
        /\ next_uuid' = next_uuid + 1
        /\ ret' = [op |-> "create_item", store |-> "system", arg |-> arg,
                   status |-> "ok", code |-> item.full_code]
        /\ history' = Append(history, arg)

\* SystemModel.create_item: the parent is looked up by its whole full_code
SystemModelBk1_create_item(name, description, parent_code) ==
    /\ IF Truthy(parent_code) /\ parent_code # Sentinel
       THEN LET p == SystemModel_get_item(sys_items, parent_code)
            IN  IF p = 0
                THEN /\ ret' = [op |-> "create_item", store |-> "system",
                                arg |-> parent_code, status |-> "ValueError",
                                code |-> << >>]
                     /\ UNCHANGED <<sys_items, sys_file, next_uuid, history>>
                ELSE LET level == CodeLevel(sys_items[p].code) + 1
                         siblings == {i \in 1..Len(sys_items) :
                                        /\ sys_items[i].parent_code = parent_code
                                        /\ CodeLevel(sys_items[i].code) = level}
                     IN  SystemModelBk1_insert(name, description, parent_code,
                                               parent_code, level,
                                               Cardinality(siblings) + 1)
       ELSE SystemModelBk1_insert(name, description, parent_code, Sentinel, 0, 1)
    /\ UNCHANGED <<tech_items, tech_file, connections, conn_file>>

\* ------------------------------------------------------------------ inputs
Names == {"A"}
Descriptions == {""}
ShortArg == <<0, 1>>                                  \* "01"
AliasArg == <<9, 9, 9, 9, 9, 9, 0, 1, 0, 0, 0, 1>>    \* "999999010001"
UnknownArg == <<9, 9, 9, 9, 9, 9, 9, 9, 9, 9, 9, 9>>  \* "999999999999"
ParentArgs(items) == {None, ShortArg, AliasArg, UnknownArg} \cup Keys(items)

\* ----------------------------------------------------------- specification
NoFile == [exists |-> FALSE, data |-> << >>]

Init ==
    /\ sys_items = << >>
    /\ sys_file = NoFile
    /\ tech_items = << >>
    /\ tech_file = NoFile
    /\ next_uuid = 1
    /\ ret = [op |-> "none", store |-> "none", arg |-> None, status |-> "none",
              code |-> << >>]
    /\ history = << >>
    /\ connections = << >>
    /\ conn_file = NoFile

CreateSystemItem ==
    /\ Len(history) < MaxCreates
    /\ \E n \in Names, d \in Descriptions, p \in ParentArgs(sys_items) :
           SystemModel_create_item(n, d, p)

Next == CreateSystemItem

Spec == Init /\ [][Next]_vars

\* the technology store alone
CreateTechnologyItem ==
    /\ Len(history) < MaxCreates
    /\ \E n \in Names, d \in Descriptions, p \in ParentArgs(tech_items) :
           TechnologyModel_create_item(n, d, p)

NextTech == CreateTechnologyItem

SpecTech == Init /\ [][NextTech]_vars

\* a caller that always adds the next element under the one it created last
\* (the first call creates the root)
CreateUnderLast ==
    /\ Len(history) < MaxDepth
    /\ \E n \in Names, d \in Descriptions :
           SystemModel_create_item(n, d, IF ret.status = "ok" THEN ret.code ELSE None)

NextDeep == CreateUnderLast

SpecDeep == Init /\ [][NextDeep]_vars

\* the system store with attributes, technology references and reopening
TechCode1 == <<0, 0, 0, 0, 0, 0, 0, 0, 0, 0, 0, 1>>    \* "000000000001"
TechCode2 == <<0, 0, 0, 0, 0, 1, 0, 1, 0, 0, 0, 1>>    \* "000001010001"
TechCodes == {TechCode1, TechCode2}
AttrInputs == {<<"mechanical", "d1">>, <<"Mechanical", "d2">>, <<"State", "d1">>,
               <<"thermal", "d1">>}
AttrInputsBasic == {<<"Mechanical", "d1">>, <<"thermal", "d1">>}
ItemCodeArgs(items) == Keys(items) \cup {UnknownArg}

CreateFew ==
    /\ Len(history) < MaxItems
    /\ \E n \in Names, d \in Descriptions, p \in {None} \cup Keys(sys_items) :
           SystemModel_create_item(n, d, p)

AddAttributeBasic ==
    \E c \in ItemCodeArgs(sys_items), a \in AttrInputsBasic :
        SystemModel_add_attribute(c, a[1], a[2])

AssignTechnology ==
    \E c \in ItemCodeArgs(sys_items), t \in TechCodes :
        SystemModel_assign_technology(c, t)

GetItem == \E c \in ItemCodeArgs(sys_items) : SystemModel_get_item_call(c)

ReopenSystem == SystemModel_reopen

NextOps == CreateFew \/ AddAttributeBasic \/ AssignTechnology \/ GetItem \/ ReopenSystem

SpecOps == Init /\ [][NextOps]_vars

\* the system store with attributes of several types and descriptions
AddAttribute ==
    \E c \in ItemCodeArgs(sys_items), a \in AttrInputs :
        SystemModel_add_attribute(c, a[1], a[2])

NextAttr == CreateFew \/ AddAttribute \/ ReopenSystem

SpecAttr == Init /\ [][NextAttr]_vars

\* the connection registry alone
EndCode1 == <<0, 0, 0, 0, 0, 0, 0, 0, 0, 0, 0, 1>>    \* "000000000001"
EndCode2 == <<0, 0, 0, 0, 0, 1, 0, 1, 0, 0, 0, 1>>    \* "000001010001"
SourceTexts == {NoText, <<"A", EndCode1>>, <<"A", << >> >>}
TargetTexts == {<<"A", EndCode1>>, <<"B", EndCode1>>, <<"A", EndCode2>>}
TypeLabels == {"Mechanical", "Custom..."}
CustomLabels == {"", "Glue"}
SourceCodes == {EndCode1, << >>}
TargetCodes == {EndCode1, EndCode2}
TypePairs == {<<"MECH", "Mechanical">>, <<"CUST", "Glue">>}

CreateConnection ==
    /\ Len(connections) < MaxConns
    /\ \E s \in SourceTexts, t \in TargetTexts, l \in TypeLabels, c \in CustomLabels,
          d \in Descriptions :
           ManagerGUI_create_connection(s, t, l, c, d)

AddConnection ==
    /\ Len(connections) < MaxConns
    /\ \E s \in SourceCodes, t \in TargetCodes, p \in TypePairs, d \in Descriptions :
           ConnectionManager_add_connection_call(s, p[1], p[2], t, d)

ReopenConnections ==
    /\ next_uuid + Len(connections) <= MaxUuid
    /\ ConnectionManager_reopen

ReopenConnections1 == ConnectionManager1_reopen

NextConn == CreateConnection \/ AddConnection \/ ReopenConnections \/ ReopenConnections1

SpecConn == Init /\ [][NextConn]_vars

\* the project edited in the manager (create, assign, connect, delete) and
\* shown in the visualizer
MaxTree == 3         \* create_item calls on both stores together
MaxTech == 1         \* entities in the technology store
MaxLinks == 1        \* connections created

SystemElemList(items) == {<<items[i].name, items[i].full_code>> : i \in 1..Len(items)}

CreateTree ==
    /\ Len(history) < MaxTree
    /\ \E n \in Names, d \in Descriptions, p \in {None} \cup Keys(sys_items) :
           SystemModel_create_item(n, d, p)

CreateTech ==
    /\ Len(history) < MaxTree
    /\ Len(tech_items) < MaxTech
    /\ \E n \in Names, d \in Descriptions, p \in {None} \cup Keys(tech_items) :
           TechnologyModel_create_item(n, d, p)

AssignRootTechnology ==
    /\ EndCode1 \in Keys(sys_items)
    /\ SystemModel_assign_technology(EndCode1, TechCode1)

ConnectElements ==
    /\ Len(connections) < MaxLinks
    /\ \E s \in {e \in SystemElemList(sys_items) : e[2] = EndCode1},
          t \in SystemElemList(sys_items), d \in Descriptions :
           ManagerGUI_create_connection(s, t, "Mechanical", "", d)

DeleteSystemItem ==
    \E code \in Displayed(sys_items) : EditableManagerGUI_delete_system_item(code)

DeleteTechItem ==
    \E code \in Displayed(tech_items) : EditableManagerGUI_delete_tech_item(code)

SelectItem ==
    /\ sys_file.exists /\ tech_file.exists /\ conn_file.exists
    /\ \E code \in Keys(sys_items) : DigitalTwinVisualizer_on_tree_select(code)

NextDel == \/ CreateTree \/ CreateTech \/ AssignRootTechnology \/ ConnectElements
           \/ DeleteSystemItem \/ DeleteTechItem

SpecDel == Init /\ [][NextDel]_vars

NextView == NextDel \/ SelectItem

SpecView == Init /\ [][NextView]_vars

\* generate_code on its own: a (level, index) pair is drawn, then encoded
MaxSmallIndex == 8   \* the indices 1..MaxSmallIndex are all drawn
MaxLevel == 10 ^ HierarchyDigits - 1
MaxIndex == 10 ^ SiblingDigits - 1
Levels == 0..MaxLevel
Indices == (1..MaxSmallIndex) \cup {99, 100, 999, 1000, MaxIndex - 1, MaxIndex}

InitGen ==
    /\ sys_items = << >> /\ sys_file = NoFile
    /\ tech_items = << >> /\ tech_file = NoFile
    /\ connections = << >> /\ conn_file = NoFile
    /\ next_uuid = 1
    /\ history = << >>
    /\ ret \in {[op |-> "input", level |-> l, index |-> i] : l \in Levels, i \in Indices}

GenerateCode ==
    /\ ret.op = "input"
    /\ ret' = [op |-> "generate_code", level |-> ret.level, index |-> ret.index,
               code |-> generate_code(ret.level, ret.index),
               element_code |-> ConnectionElement_generate_code(
                                    ret.level, ret.index, HierarchyDigits, SiblingDigits)]
    /\ UNCHANGED <<sys_items, sys_file, tech_items, tech_file, next_uuid, history,
                   connections, conn_file>>

NextGen == GenerateCode

SpecGen == InitGen /\ [][NextGen]_vars

\* every mutating operation of the project, failing and idle calls included
CreateTreeAny ==
    /\ Len(history) < MaxTree
    /\ \E n \in Names, d \in Descriptions, p \in {None, UnknownArg} \cup Keys(sys_items) :
           SystemModel_create_item(n, d, p)

AddRootAttribute ==
    \E c \in {EndCode1, UnknownArg}, a \in AttrInputsBasic :
        SystemModel_add_attribute(c, a[1], a[2])

UnassignRootTechnology ==
    \E c \in {EndCode1, UnknownArg} : ConnectSysTechGUI_unassign_technology(c, TechCode1)

NextSync == \/ CreateTreeAny \/ CreateTech \/ AddRootAttribute \/ AssignRootTechnology
            \/ UnassignRootTechnology \/ ConnectElements
            \/ DeleteSystemItem \/ DeleteTechItem

SpecSync == Init /\ [][NextSync]_vars

\* the system store under creations and deletions
MaxChurn == 5        \* create_item calls between deletions

CreateChurn ==
    /\ Len(history) < MaxChurn
    /\ \E n \in Names, d \in Descriptions, p \in {None} \cup Keys(sys_items) :
           SystemModel_create_item(n, d, p)

NextChurn == CreateChurn \/ DeleteSystemItem

SpecChurn == Init /\ [][NextChurn]_vars

\* SystemModel(db_path) on a file of entity records written by another hand:
\* the records of a root, its child and its grandchild, any of them left out,
\* each with a children_codes list that may be right, empty or wrong
BaseItems ==
    LET r == SystemItem(1, "A", "", None, 0, 1)
        x == SystemItem(2, "A", "", r.full_code, 1, 1)
        z == SystemItem(3, "A", "", x.full_code, 2, 1)
    IN  <<r, x, z>>

ChildrenChoices ==
    {<< >>, <<BaseItems[2].full_code>>, <<BaseItems[3].full_code>>,
     <<BaseItems[2].full_code, BaseItems[3].full_code>>, <<UnknownArg>>}

RecordFile(present, children) ==
    LET all == [i \in 1..Len(BaseItems) |->
                   SystemItem_to_dict([BaseItems[i] EXCEPT !.children_codes = children[i]])]
    IN  [exists |-> TRUE,
         data |-> SelectSeq(all, LAMBDA d :
                      d.full_code \in {BaseItems[i].full_code : i \in present})]

RecordFiles ==
    {RecordFile(present, children) :
        present \in SUBSET (1..Len(BaseItems)),
        children \in [1..Len(BaseItems) -> ChildrenChoices]}

InitLoad ==
    /\ sys_items = << >> /\ sys_file \in RecordFiles
    /\ tech_items = << >> /\ tech_file = NoFile
    /\ connections = << >> /\ conn_file = NoFile
    /\ next_uuid = Len(BaseItems) + 1
    /\ history = << >>
    /\ ret = [op |-> "none", store |-> "none", arg |-> None, status |-> "none",
              code |-> << >>]

LoadFile ==
    /\ ret.op = "none"
    /\ SystemModel_reopen

NextLoad == LoadFile

SpecLoad == InitLoad /\ [][NextLoad]_vars

\* the registry with connections of any token and label
TypePairsAny == TypePairs \cup {<<"MECH", "Electrical">>, <<"ELEC", "Electrical">>}

AddAnyConnection ==
    /\ Len(connections) < MaxConns
    /\ \E p \in TypePairsAny, d \in Descriptions :
           ConnectionManager_add_connection_call(EndCode1, p[1], p[2], EndCode2, d)

NextLabel == CreateConnection \/ AddAnyConnection

SpecLabel == Init /\ [][NextLabel]_vars

\* the store of system_model_bk1.py under creations
MaxBk1 == 5          \* create_item calls that return

CreateBk1 ==
    /\ Len(history) < MaxBk1
    /\ \E n \in Names, d \in Descriptions,
          p \in {None, Sentinel, UnknownArg} \cup Keys(sys_items) :
           SystemModelBk1_create_item(n, d, p)

NextBk1 == CreateBk1

SpecBk1 == Init /\ [][NextBk1]_vars

\* ------------------------------------------------------------------ claims
\* the stored entity with key `key`
Item(items, key) == items[CHOOSE i \in 1..Len(items) : items[i].full_code = key]

Count(seq, x) == Cardinality({i \in 1..Len(seq) : seq[i] = x})

Elems(seq) == {seq[i] : i \in 1..Len(seq)}

RootFullCode == <<0, 0, 0, 0, 0, 0, 0, 0, 0, 0, 0, 1>>   \* "000000000001"

\* C1: every create_item call that returns yields a full_code that no entity
\* of the store had before the call, so that nothing is replaced and the store
\* holds as many entities as calls have returned.
C1_FreshFullCode ==
    [][(history' # history) =>
          /\ ret'.code \notin Keys(sys_items)
          /\ Len(sys_items') = Len(history')]_vars

\* C2: after exactly two root creations on an empty SystemModel the store holds
\* two level-0 entities with distinct full_codes and child_index 1 and 2.
C2_TwoRoots ==
    (history = <<None, None>>) =>
        /\ Len(sys_items) = 2
        /\ \A i \in 1..Len(sys_items) : sys_items[i].level = 0
        /\ sys_items[1].full_code # sys_items[2].full_code
        /\ sys_items[1].child_index = 1
        /\ sys_items[2].child_index = 2

\* C3: a create_item call whose argument is the full_code of a stored entity P,
\* made after k earlier returned calls with that same argument, returns an
\* entity with child_index k + 1 and level P.level + 1.
C3_NextSiblingIndex ==
    (ret.status = "ok" /\ ret.store = "system" /\ ret.arg \in Keys(sys_items)) =>
        LET P == Item(sys_items, ret.arg)
            E == Item(sys_items, ret.code)
        IN  /\ E.child_index = Count(history, ret.arg)
            /\ E.level = P.level + 1

\* right after create_item(parent_code = P.full_code) returned E, E's key is in
\* P.children_codes exactly once
ChildRegisteredOnce(items) ==
    (ret.status = "ok" /\ ret.arg \in Keys(items)) =>
        Count(Item(items, ret.arg).children_codes, ret.code) = 1

\* C4: in both stores, right after create_item(parent_code = P.full_code)
\* returned E for a stored P, P.children_codes holds E.full_code exactly once.
C4_ChildRegistered ==
    /\ ret.store = "system" => ChildRegisteredOnce(sys_items)
    /\ ret.store = "technology" => ChildRegisteredOnce(tech_items)

\* C5: the codes in X.children_codes are exactly the full_codes of the stored
\* entities whose parent_code is X.full_code, for every stored X.
C5_ChildrenMatchParents ==
    \A i \in 1..Len(sys_items) :
        Elems(sys_items[i].children_codes) =
            {sys_items[j].full_code : j \in
                {j \in 1..Len(sys_items) :
                    sys_items[j].parent_code = sys_items[i].full_code}}

\* C6: every stored entity of level > 0 has as parent_code the full_code of a
\* stored entity, and every level-0 entity has the all-zero parent_code.
C6_ParentExists ==
    \A i \in 1..Len(sys_items) :
        /\ sys_items[i].level > 0 => sys_items[i].parent_code \in Keys(sys_items)
        /\ sys_items[i].level = 0 => sys_items[i].parent_code = Sentinel

\* C7: a create_item call whose parent_code is given, is not the root sentinel
\* and is not the key of a stored entity raises and leaves store and file as
\* they were.
C7_UnknownParentRejected ==
    [][(/\ ret'.op = "create_item"
        /\ Truthy(ret'.arg)
        /\ ret'.arg # Sentinel
        /\ ret'.arg \notin Keys(sys_items)) =>
          /\ ret'.status = "ValueError"
          /\ sys_items' = sys_items
          /\ sys_file' = sys_file]_vars

\* C8: on an empty SystemModel the first root has code "000001" and full_code
\* "000000000001", and a child then created under that full_code has level 1,
\* child_index 1, code "010001", parent_code "000001", full_code "000001010001".
C8_Example ==
    /\ (history = <<None>>) =>
          /\ Len(sys_items) = 1
          /\ sys_items[1].code = <<0, 0, 0, 0, 0, 1>>
          /\ sys_items[1].full_code = RootFullCode
    /\ (history = <<None, RootFullCode>>) =>
          /\ Len(sys_items) = 2
          /\ sys_items[1].full_code = RootFullCode
          /\ LET B == sys_items[2]
             IN  /\ B.level = 1
                 /\ B.child_index = 1
                 /\ B.code = <<0, 1, 0, 0, 0, 1>>
                 /\ B.parent_code = <<0, 0, 0, 0, 0, 1>>
                 /\ B.full_code = <<0, 0, 0, 0, 0, 1, 0, 1, 0, 0, 0, 1>>

C8_Witness ==
    /\ history = <<None, RootFullCode>>
    /\ ret.status = "ok"
    /\ ret.arg = RootFullCode
    /\ ret.code = sys_items[2].full_code

\* C9: while all levels are below 100 and all sibling indices below 10000,
\* every stored entity has a 6-character code, a 6-character parent_code and a
\* 12-character full_code that is parent_code followed by code, at any depth.
C9_FixedWidth ==
    (\A i \in 1..Len(sys_items) :
        sys_items[i].level < 100 /\ sys_items[i].child_index < 10000) =>
    \A i \in 1..Len(sys_items) :
        /\ Len(sys_items[i].code) = 6
        /\ Len(sys_items[i].parent_code) = 6
        /\ Len(sys_items[i].full_code) = 12
        /\ sys_items[i].full_code = sys_items[i].parent_code \o sys_items[i].code

C9_Witness ==
    /\ Len(sys_items) = 100
    /\ sys_items[100].level = 99
    /\ sys_items[100].full_code = sys_items[99].code \o <<9, 9, 0, 0, 0, 1>>
    /\ \A i \in 1..Len(sys_items) : sys_items[i].level < 100

\* C10: no stored entity has a code wider than hierarchy_digits +
\* sibling_digits: a create_item that would need a wider code raises instead
\* of storing the entity.
C10_CodeSpaceExhausted ==
    \A i \in 1..Len(sys_items) :
        Len(sys_items[i].code) <= HierarchyDigits + SiblingDigits

NoDup(seq) == \A i, j \in 1..Len(seq) : seq[i] = seq[j] => i = j

\* C11: assign_technology(S, T) on a stored S appends T to S.technology_refs
\* when T is not yet there and otherwise leaves store and file as they were; the
\* list never holds a code twice, keeps the order of first assignment, and a
\* second call with the same pair changes nothing.
C11_AssignIdempotent ==
    [][(ret'.op = "assign_technology" /\ ret'.arg \in Keys(sys_items)) =>
          LET S      == ret'.arg
              T      == ret'.tech_code
              before == Item(sys_items, S).technology_refs
              after  == Item(sys_items', S).technology_refs
          IN  /\ after = IF InSeq(T, before) THEN before ELSE Append(before, T)
              /\ Count(after, T) = 1
              /\ NoDup(after)
              /\ Assigned(sys_items', S, T) = sys_items'
              /\ InSeq(T, before) => (sys_items' = sys_items /\ sys_file' = sys_file)]_vars

C11_Witness ==
    /\ ret.op = "assign_technology"
    /\ ret.arg \in Keys(sys_items)
    /\ ret.tech_code = TechCode2
    /\ Item(sys_items, ret.arg).technology_refs = <<TechCode2, TechCode1>>

\* C12: add_attribute on a stored entity with a type outside the four attribute
\* types raises and leaves every entity and the file as they were.
C12_InvalidTypeRejected ==
    [][(/\ ret'.op = "add_attribute"
        /\ ret'.arg \in Keys(sys_items)
        /\ Lower(ret'.attr_type) \notin AttributeTypes) =>
          /\ ret'.status = "ValueError"
          /\ sys_items' = sys_items
          /\ sys_file' = sys_file]_vars

C12_Witness ==
    /\ ret.op = "add_attribute"
    /\ ret.status = "ValueError"
    /\ ret.arg \in Keys(sys_items)
    /\ Item(sys_items, ret.arg).attributes # << >>

\* C13: the keys of every attributes map are among the four attribute types;
\* an add_attribute that returns stores its description under the lower-cased
\* type and leaves the other types alone; no other step changes the attributes
\* of an entity that stays in the store.
C13_LastWriteWins ==
    [][/\ \A i \in 1..Len(sys_items') :
              DOMAIN sys_items'[i].attributes \subseteq AttributeTypes
       /\ \A k \in Keys(sys_items) \cap Keys(sys_items') :
              LET old == Item(sys_items, k).attributes
                  new == Item(sys_items', k).attributes
              IN  IF ret'.op = "add_attribute" /\ ret'.status = "ok" /\ ret'.arg = k
                  THEN /\ Lower(ret'.attr_type) \in DOMAIN new
                       /\ new[Lower(ret'.attr_type)] = ret'.description
                       /\ DOMAIN new = DOMAIN old \cup {Lower(ret'.attr_type)}
                       /\ \A t \in DOMAIN old \ {Lower(ret'.attr_type)} : new[t] = old[t]
                  ELSE Item(sys_items', k).uuid = Item(sys_items, k).uuid => new = old]_vars

C13_Witness ==
    /\ ret.op = "add_attribute"
    /\ ret.status = "ok"
    /\ ret.attr_type = "Mechanical"
    /\ ret.arg \in Keys(sys_items)
    /\ DOMAIN Item(sys_items, ret.arg).attributes = {"mechanical", "state"}
    /\ Item(sys_items, ret.arg).attributes["mechanical"] = "d2"

\* C14: get_item, add_attribute and assign_technology addressed to a code that
\* is no key of the store return without error (get_item returns None) and
\* leave store and file as they were.
C14_AbsentIsLenient ==
    [][(/\ ret'.op \in {"get_item", "add_attribute", "assign_technology"}
        /\ ret'.arg \notin Keys(sys_items)) =>
          /\ ret'.status = "ok"
          /\ ret'.op = "get_item" => ret'.code = None
          /\ sys_items' = sys_items
          /\ sys_file' = sys_file]_vars

C14_Witness ==
    /\ ret.op = "add_attribute"
    /\ ret.arg \notin Keys(sys_items)
    /\ ret.status = "ok"
    /\ \E i \in 1..Len(sys_items) : sys_items[i].attributes # << >>

\* C15: saving the store and loading the file into a fresh SystemModel gives
\* the same entities under the same keys in the same order, every field equal.
C15_SaveLoadRoundTrip ==
    SystemModel_load(SystemModel_save(sys_items), next_uuid) = sys_items

C15_Witness ==
    /\ ret.op = "load"
    /\ \E i \in 1..Len(sys_items) :
          /\ sys_items[i].attributes # << >>
          /\ sys_items[i].technology_refs # << >>
          /\ sys_items[i].children_codes # << >>

\* C16: saving the registry and loading the file into a fresh ConnectionManager
\* gives the same connections in the same order, every field equal, the uuid
\* included.
C16_ConnectionRoundTrip ==
    ConnectionManager_load(ConnectionManager_save(connections), next_uuid) = connections

\* the same for the ConnectionManager of interconnect_gui_1.py
ConnectionRoundTrip1 ==
    ConnectionManager1_load(ConnectionManager_save(connections), next_uuid) = connections

\* C18: adding a connection whose source equals its target, or whose source
\* or target is empty, fails and leaves the registry and its file unchanged.
C18_InvalidConnectionRejected ==
    [][(/\ ret'.op \in {"add_connection", "create_connection"}
        /\ \/ ret'.source = ret'.target
           \/ ret'.source = << >>
           \/ ret'.target = << >>)
       => /\ ret'.status # "ok"
          /\ connections' = connections
          /\ conn_file' = conn_file]_vars

\* C18, the consequence: no stored connection has source = target or an empty
\* endpoint
NoInvalidConnectionStored ==
    \A i \in 1..Len(connections) :
        /\ connections[i].source # connections[i].target
        /\ connections[i].source # << >>
        /\ connections[i].target # << >>

\* what a deletion of `code` leaves of a store
DeleteFrame(before, after, code) ==
    /\ Keys(after) = Keys(before) \ {code}
    /\ Len(after) = Len(before) - 1
    /\ \A k \in Keys(after) : Item(after, k) = Item(before, k)
    /\ \A k \in Keys(after) :
          InSeq(code, Item(before, k).children_codes)
              => InSeq(code, Item(after, k).children_codes)

TechDeleteWitness ==
    /\ ret.op = "delete" /\ ret.store = "technology"
    /\ \E i \in 1..Len(sys_items) : InSeq(ret.code, sys_items[i].technology_refs)

\* the cell text of the marker, and the connections the table lists
MissingText == <<"[MISSING]">>
ConnectionsFrom(code) == SelectSeq(connections, LAMBDA c : c.source = code)

\* the technology half of C19: a technology_ref whose technology is absent is
\* shown with the name "[MISSING]"
TechRefMissingMarked ==
    (ret.op = "select") =>
        LET refs == Item(sys_items, ret.code).technology_refs
        IN  /\ ret.status = "ok"
            /\ Len(ret.tech_table) = Len(refs)
            /\ \A j \in 1..Len(refs) :
                  refs[j] \notin Keys(tech_items) => ret.tech_table[j][1] = "[MISSING]"

\* what update_conn_table shows for an absent target: the target code itself
ConnTargetShownRaw ==
    (ret.op = "select") =>
        /\ Len(ret.conn_table) = Len(ConnectionsFrom(ret.code))
        /\ \A j \in 1..Len(ret.conn_table) :
              ConnectionsFrom(ret.code)[j].target \notin Keys(sys_items)
                  => ret.conn_table[j][1] = ConnectionsFrom(ret.code)[j].target

\* C19: resolving a reference for display never raises, and the resolved name
\* is the missing marker both for a technology_ref whose technology was
\* deleted and for a connection whose target was deleted from the system
\* store.
C19_MissingMarker ==
    (ret.op = "select") =>
        /\ ret.status = "ok"
        /\ \A j \in 1..Len(ret.tech_table) :
              Item(sys_items, ret.code).technology_refs[j] \notin Keys(tech_items)
                  => ret.tech_table[j][1] = "[MISSING]"
        /\ \A j \in 1..Len(ret.conn_table) :
              ConnectionsFrom(ret.code)[j].target \notin Keys(sys_items)
                  => ret.conn_table[j][1] = MissingText

\* the selected entity has a technology_ref whose technology was deleted
TechRefMissingWitness ==
    /\ ret.op = "select"
    /\ \E j \in 1..Len(ret.tech_table) : ret.tech_table[j][1] = "[MISSING]"
    /\ tech_file.exists

\* int(s) of a digit string, and the slices s[:n] and s[-n:]
RECURSIVE DigitsToInt(_)
DigitsToInt(s) ==
    IF s = << >> THEN 0
    ELSE 10 * DigitsToInt(SubSeq(s, 1, Len(s) - 1)) + s[Len(s)]

FirstN(s, n) == IF Len(s) <= n THEN s ELSE SubSeq(s, 1, n)
LastN(s, n) == IF Len(s) <= n THEN s ELSE SubSeq(s, Len(s) - n + 1, Len(s))

\* C20: for levels 0..99 and indices 1..9999 generate_code gives a code of 6
\* characters whose first 2 digits parse to the level and whose last 4 digits
\* parse to the index, and no other (level, index) pair gives the same code;
\* the same for ConnectionElement.generate_code with 2 and 4 digits.
C20_GenerateCodeInjective ==
    (ret.op = "generate_code") =>
        /\ Len(ret.code) = CodeWidth
        /\ DigitsToInt(FirstN(ret.code, HierarchyDigits)) = ret.level
        /\ DigitsToInt(LastN(ret.code, SiblingDigits)) = ret.index
        /\ \A l \in Levels, i \in Indices :
              <<l, i>> # <<ret.level, ret.index>> => generate_code(l, i) # ret.code
        /\ ret.element_code = ret.code

\* the largest pair of the domain has been encoded
C20_Witness ==
    /\ ret.op = "generate_code"
    /\ ret.level = MaxLevel /\ ret.index = MaxIndex
    /\ ret.code = <<9, 9, 9, 9, 9, 9>>

\* a file holds the collection: it is the serialization, or it does not exist
\* (what load reads as the empty collection) and the collection is empty
InSync(file, saved, items) ==
    IF file.exists THEN file = saved ELSE items = << >>

IdleCallWitness ==
    /\ ret.op \in {"unassign_technology", "assign_technology", "add_attribute"}
    /\ ret.status = "ok"
    /\ ret.arg = UnknownArg
    /\ sys_file.exists

UnassignWitness ==
    /\ ret.op = "unassign_technology"
    /\ ret.arg = EndCode1
    /\ sys_file.exists
    /\ \E i \in 1..Len(sys_items) :
          sys_items[i].full_code = EndCode1 /\ sys_items[i].technology_refs = << >>

\* the registry alone, read again from its file: connections_gui_new draws new
\* uuids on load (C16), so this is violated under SpecConn between a load and
\* the next add_connection; load is not one of the operations of C21
ReloadedRegistryInSync ==
    InSync(conn_file, ConnectionManager_save(connections), connections)

\* a list of nodes in ascending (non-descending) order of code
Ascending(nodes) ==
    \A i, j \in 1..Len(nodes) : i < j => ~StrLess(nodes[j].code, nodes[i].code)

\* C22: in every store state reachable by create_item and delete the tree
\* lists the roots in ascending order of code and, under every shown entity,
\* its children in ascending order of code.
C22_ListingSorted ==
    /\ Ascending(RootList(sys_items))
    /\ \A i \in 1..Len(sys_items) :
          sys_items[i].full_code \in Displayed(sys_items)
              => Ascending(ChildList(sys_items, sys_items[i]))

\* the same with creations only
ListingSortedWitness ==
    \E i \in 1..Len(sys_items) : Len(ChildList(sys_items, sys_items[i])) >= 2

\* the entity `parent_code` names lists a child that is no longer stored
SiblingDeleted(items, parent_code) ==
    \E i \in 1..Len(items) :
        /\ items[i].full_code = parent_code
        /\ \E k \in 1..Len(items[i].children_codes) :
              items[i].children_codes[k] \notin Keys(items)

\* C27: a create_item under a parent one of whose children was deleted returns
\* a full_code that no surviving entity holds, so no surviving sibling is
\* overwritten.
C27_NoOverwriteAfterDelete ==
    [][(/\ history' # history
        /\ ret'.op = "create_item"
        /\ SiblingDeleted(sys_items, ret'.arg))
       => /\ ret'.code \notin Keys(sys_items)
          /\ Len(sys_items') = Len(sys_items) + 1]_vars

\* with creations only (Spec): a create_item under a stored parent returns a
\* full_code no entity holds
FreshUnderStoredParent ==
    [][(/\ history' # history
        /\ ret'.op = "create_item"
        /\ ret'.arg \in Keys(sys_items)
        /\ ~SiblingDeleted(sys_items, ret'.arg))
       => ret'.code \notin Keys(sys_items)]_vars

\* I2 and I3 with the parent_code the store keeps (the parent's 6-digit code):
\* each children_codes holds exactly the full_codes of the stored entities
\* whose parent_code is that entity's code, each once
ChildrenDerived(items) ==
    \A i \in 1..Len(items) :
        /\ Elems(items[i].children_codes) =
               {items[j].full_code : j \in
                   {j \in 1..Len(items) : items[j].parent_code = items[i].code}}
        /\ NoDup(items[i].children_codes)

\* C23: SystemModel.load does not trust the stored children_codes: after any
\* file of entity records is loaded, each children_codes is the set of stored
\* entities whose parent is that entity (a load is never rejected).
C23_LoadRederivesChildren ==
    (ret.op = "load") => ChildrenDerived(sys_items)

\* a file whose lists are right loads into a store whose lists are right
RightFileLoaded ==
    /\ ret.op = "load"
    /\ Len(sys_items) = Len(BaseItems)
    /\ ChildrenDerived(sys_items)

\* load takes every list as the file has it
LoadKeepsStoredChildren ==
    (ret.op = "load") =>
        /\ Len(sys_items) = Len(sys_file.data)
        /\ \A i \in 1..Len(sys_items) :
              sys_items[i].children_codes = sys_file.data[i].children_codes

\* the label the catalogue pairs with a token
LabelOf(type_id) ==
    CONNECTION_TYPES[CHOOSE i \in 1..Len(CONNECTION_TYPES) :
                         CONNECTION_TYPES[i][2] = type_id][1]

LabelMatches(c) == c.type_id # "CUST" => c.type_label = LabelOf(c.type_id)

\* C24: every stored connection whose type_id is not CUST has the type_label
\* of the catalogue, and an addition with a non-CUST token and another label
\* is rejected and leaves the registry unchanged.
C24_LabelMatchesCatalogue ==
    \A i \in 1..Len(connections) : LabelMatches(connections[i])

\* the handlers of the GUI pair token and label themselves
CreatedLabelMatches ==
    [][(ret'.op = "create_connection" /\ ret'.status = "ok")
          => LabelMatches(connections'[Len(connections')])]_vars

CreatedLabelWitness ==
    /\ ret.op = "create_connection" /\ ret.status = "ok"
    /\ connections # << >>

\* C25: in system_model_bk1.py every stored entity's full_code has the width
\* 12 = 2 x (2 + 4) at every depth, for any sequence of create_item calls.
C25_FixedWidthBk1 ==
    \A i \in 1..Len(sys_items) :
        Len(sys_items[i].full_code) = 2 * (HierarchyDigits + SiblingDigits)

\* what the width is: 6 digits more at every level
WidthGrowsBk1 ==
    \A i \in 1..Len(sys_items) :
        Len(sys_items[i].full_code) =
            (sys_items[i].level + 2) * (HierarchyDigits + SiblingDigits)

WidthGrowsWitness ==
    \E i \in 1..Len(sys_items) : sys_items[i].level >= 2

\* C26: create_item(parent_code = P.full_code) for a stored P changes the
\* children_codes of P only and no other field of any entity stored before the
\* call; an entity Q # P with P's 6-digit code is left as it was.
C26_OnlyParentChanged ==
    [][(history' # history /\ ret'.arg \in Keys(sys_items)) =>
          \A k \in Keys(sys_items) :
              IF k = ret'.arg
              THEN [Item(sys_items', k) EXCEPT
                       !.children_codes = Item(sys_items, k).children_codes]
                   = Item(sys_items, k)
              ELSE Item(sys_items', k) = Item(sys_items, k)]_vars

\* what the registration loop does: every entity with the parent's 6-digit
\* code gets the new full_code appended, the others stay
AllNamesakesChanged ==
    [][(history' # history /\ ret'.arg \in Keys(sys_items)) =>
          \A k \in Keys(sys_items) :
              Item(sys_items', k) =
                  IF Item(sys_items, k).code = Last6(ret'.arg)
                  THEN [Item(sys_items, k) EXCEPT
                           !.children_codes = Append(@, ret'.code)]
                  ELSE Item(sys_items, k)]_vars

\* two stored entities have the same 6-digit code, and a child was created
\* under one of them
NamesakeWitness ==
    /\ ret.op = "create_item" /\ ret.status = "ok"
    /\ ret.arg \in Keys(sys_items)
    /\ \E k \in Keys(sys_items) :
          k # ret.arg /\ Item(sys_items, k).code = Last6(ret.arg)

\* C28: in every state reachable by create_item calls the tree listing visits
\* every stored entity exactly once: none is unreachable from the roots, none
\* is shown twice.
C28_ListingVisitsEachOnce ==
    /\ Elems(TreeNodes(sys_items)) = Keys(sys_items)
    /\ Len(TreeNodes(sys_items)) = Len(sys_items)

\* the two halves
AllReachable == Elems(TreeNodes(sys_items)) = Keys(sys_items)
NoneShownTwice == NoDup(TreeNodes(sys_items))

\* the stored entities insert_node reaches from `code` in one or more steps
\* through children_codes
Below(items, code) ==
    Shown(items, {c \in Keys(items) : InSeq(c, Item(items, code).children_codes)},
          Len(items))

\* the level a full_code names: the digits between the 6 of the parent and the
\* 4 of the sibling index
LevelOfFullCode(c) == DigitsToInt(SubSeq(c, CodeWidth + 1, Len(c) - SiblingDigits))

====
